---------------------------- MODULE Spec2Model ----------------------------
(***************************************************************************)
(* Reaction log / photo_stats synchronisation of the photo sharing app.    *)
(*                                                                         *)
(* Two services share two MongoDB collections:                             *)
(*   - reaction-service (routers/reactions.py) owns the "reactions" log    *)
(*     and, after a write, calls the photo-of-day service over gRPC;       *)
(*   - photo-of-day-service (grpc_server.py) owns "photo_stats", which it  *)
(*     rebuilds for one photo (recalculate_stats) or for all photos at     *)
(*     start-up (sync_existing_reactions).                                 *)
(* photo-service (routers/gallery.py, photo.py, photo_of_day.py) owns the   *)
(* "photos" and "photo_id_counters" collections, photographer-service      *)
(* (routers/photographers_*.py) the "photographers" collection.            *)
(* Every await of the handlers that touches a collection is one step.      *)
(***************************************************************************)
EXTENDS Integers, Sequences, FiniteSets, TLC

\* ---------------------------------------------------------------- bounds
\* Requests the reaction service accepts in one behaviour of Spec.
MaxReqs == 2
\* Requests the reaction service accepts in one behaviour of SpecServing.
MaxReqsServing == 3
\* Restarts of the photo-of-day service in one behaviour.
MaxRestarts == 1
\* Requests the reaction service accepts in one behaviour of SpecResync.
MaxReqsResync == 2
\* Requests the photo and photographer services accept in one behaviour of
\* SpecGallery.
MaxReqsGallery == 5
\* Requests they accept in one behaviour of SpecListing.
MaxReqsListing == 3
\* Requests the services accept in one behaviour of SpecWinner.
MaxReqsWinner == 2
\* The greatest offset and the greatest limit a listing is asked with.
MaxOffset == 3
MaxLimit == 2
\* Requests the reaction service accepts in one behaviour of SpecFrame.
MaxReqsFrame == 1
\* Requests the reaction service accepts in one behaviour of SpecQuery.
MaxReqsQuery == 2
\* Largest Unix timestamp (seconds) a GetPhotoOfDayRequest carries.
MaxTimestamp == 2
\* Clock ticks per second (datetime.isoformat prints the sub-second part
\* only when it is not zero).
TicksPerSecond == 2

\* ----------------------------------------------------------- input sets
\* Request handler tasks that may be in flight together.
Tasks == {"t1", "t2"}
DisplayNames == {"john"}
PhotoIds == {5, 6}
Reactors == {"alice", "bob"}
\* settings.allowed_reactions (two of its seven members).
allowed_reactions == {"coeur", "fire"}
\* What a client may send as a reaction.
ReactionInputs == allowed_reactions \cup {"invalid_emoji"}

PhotoKeys == DisplayNames \X PhotoIds

\* The tasks that run the photo and photographer services' handlers.
GalleryTasks == {"g1", "g2"}
\* The photo ids a client may name in a request to the photo service.
PhotoIdInputs == {0, 1} \cup PhotoIds

VARIABLES
    photos,       \* the "photos" collection: a set of Photo documents
    photographers, \* the "photographers" collection: a set of Photographer documents
    counters,     \* the "photo_id_counters" collection: a set of PhotoIdCounter documents
    gtasks,       \* the photo and photographer services' request handlers, one per task
    uploaded,     \* history: the photo ids of the uploads that succeeded, in order
    deleted,      \* history: the keys of the photos that were deleted
    overlapped,   \* history: an upload began while another upload was running
    reactions,    \* the "reactions" collection: a set of Reaction documents
    photo_stats,  \* the "photo_stats" collection: photo key -> stats document
    tasks,        \* the reaction service's request handlers, one per task
    pod,          \* the photo-of-day service: serve() and its resync pass
    clock,        \* datetime.utcnow(), in ticks
    nreq,         \* requests accepted so far
    quota,        \* requests accepted at most
    nrestart,     \* restarts of the photo-of-day service so far
    reply,        \* what GetPhotoOfDay or GetPhotoStats answered last
    logVer,       \* history: number of writes to the log, per photo
    statsVer,     \* history: logVer the stored stats were computed at, per photo
    syncHist      \* history: the resync passes that ran to their end over the log as it is now

\* What the photographer service and the gallery handlers of the photo
\* service read and write, besides photos and the clock.
gallery == <<photographers, counters, gtasks, uploaded, deleted, overlapped>>

vars == <<photos, reactions, photo_stats, tasks, pod, clock, nreq, quota, nrestart,
          reply, logVer, statsVer, syncHist, photographers, counters, gtasks,
          uploaded, deleted, overlapped>>

\* ------------------------------------------------------------- documents
Key(r) == <<r.display_name, r.photo_id>>

\* A Photo document: its _id and the fields the handlers read.
NewPhoto(d, p, oid) == [id |-> oid, display_name |-> d, photo_id |-> p]

\* Photo.find_one(display_name == d, photo_id == p): the matches.
FindPhoto(store, k) == {p \in store : Key(p) = k}

\* The documents of photos uploaded before the behaviour begins (their _ids
\* are older than any _id the behaviour creates).
StoredPhotos(keys) == {NewPhoto(k[1], k[2], 0 - k[2]) : k \in keys}

\* Reaction.find(display_name == d, photo_id == p)
ReactionsOf(log, k) == {r \in log : Key(r) = k}

\* Reaction.find_one(display_name, photo_id, reactor_name): the matches.
FindReaction(log, k, reactor) == {r \in ReactionsOf(log, k) : r.reactor_name = reactor}

\* datetime.isoformat(): seconds, then the fraction unless it is zero.
IsoFormat(t) ==
    IF t % TicksPerSecond = 0
    THEN <<t \div TicksPerSecond>>
    ELSE <<t \div TicksPerSecond, t % TicksPerSecond>>

Min(S) == CHOOSE x \in S : \A y \in S : x <= y
Max(S) == CHOOSE x \in S : \A y \in S : x >= y

RECURSIVE SumValues(_)
\* sum(breakdown.values())
SumValues(f) ==
    IF DOMAIN f = {} THEN 0
    ELSE LET k == CHOOSE x \in DOMAIN f : TRUE
         IN  f[k] + SumValues([x \in DOMAIN f \ {k} |-> f[x]])

\* breakdown[reaction_type] = breakdown.get(reaction_type, 0) + 1, over the list
Breakdown(list) ==
    [k \in {r.reaction : r \in list} |-> Cardinality({r \in list : r.reaction = k})]

\* StatsDoc with the dates taken from updated_at instead of created_at.
StatsDoc_UpdatedAt(list) ==
    LET breakdown == Breakdown(list)
        dates == {r.updated_at : r \in list}
    IN  [total_reactions |-> SumValues(breakdown),
         reaction_breakdown |-> breakdown,
         first_reaction_date |-> IsoFormat(Min(dates)),
         last_reaction_date |-> IsoFormat(Max(dates))]

\* StatsDoc whose last_reaction_date is the time of the computation.
StatsDoc_LastIsNow(list) ==
    LET breakdown == Breakdown(list)
        dates == {r.created_at : r \in list}
    IN  [total_reactions |-> SumValues(breakdown),
         reaction_breakdown |-> breakdown,
         first_reaction_date |-> IsoFormat(Min(dates)),
         last_reaction_date |-> IsoFormat(clock)]

\* The "$set" document both writers build from a non-empty list of reactions.
StatsDoc(list) ==
    LET breakdown == Breakdown(list)
        dates == {r.created_at : r \in list}
    IN  [total_reactions |-> SumValues(breakdown),
         reaction_breakdown |-> breakdown,
         first_reaction_date |-> IsoFormat(Min(dates)),
         last_reaction_date |-> IsoFormat(Max(dates))]

\* Upsert that replaces the whole collection by the one document.
Upsert_ReplaceAll(stats, k, doc) == [p \in {k} |-> doc]

\* collection.update_one({display_name, photo_id}, {"$set": doc}, upsert=True)
Upsert(stats, k, doc) ==
    [p \in DOMAIN stats \cup {k} |-> IF p = k THEN doc ELSE stats[p]]

\* collection.delete_one({display_name, photo_id})
DeleteOne(stats, k) == [p \in DOMAIN stats \ {k} |-> stats[p]]

\* ----------------------------------------------------------------- tasks
\* What the caller of IncrementReaction holds before any response arrives.
NoResponse == [answered |-> FALSE, success |-> FALSE, total_reactions |-> 0]

\* IncrementReactionResponse(success=..., total_reactions=...)
IncrementReactionResponse(ok, total) ==
    [answered |-> TRUE, success |-> ok, total_reactions |-> total]

IdleTask ==
    [op |-> "none", pc |-> "idle", display_name |-> "john", photo_id |-> 5,
     reactor_name |-> "alice", reaction |-> "coeur", doc |-> {}, read |-> {},
     readVer |-> 0, status |-> 0, wrote |-> FALSE, recalc |-> "none",
     response |-> NoResponse]

\* A handler that has returned: its locals are gone, what it answered stays
\* until the task takes the next request.
Finish(t, code, r) ==
    [IdleTask EXCEPT !.op = t.op, !.status = code, !.recalc = r, !.wrote = t.wrote,
                     !.response = t.response]

NoGroups == [k \in {} |-> {}]
NoStats == [k \in {} |-> 0]

\* serve() begins with the resync pass.
InitPod == [pc |-> "sync_read", sync |-> "running", photos_reactions |-> NoGroups,
            pending |-> {}, orphans |-> {}, readVer |-> [k \in PhotoKeys |-> 0]]

\* No resync pass has run to its end since the log was last written.
NoSync == [count |-> 0, store |-> NoStats]

\* GetPhotoOfDay has not been called yet.
NoReply == [rpc |-> "none", status |-> "none", start |-> 0, end |-> 0, found |-> FALSE,
            display_name |-> "", photo_id |-> 0, total_reactions |-> 0,
            reaction_breakdown |-> Breakdown({}),
            first_reaction_timestamp |-> 0, last_reaction_timestamp |-> 0]

\* A Photographer document: its _id and its display_name.
NewPhotographer(d, oid) == [id |-> oid, display_name |-> d]

\* A PhotoIdCounter document.
NewCounter(d, next, oid) == [id |-> oid, display_name |-> d, next_photo_id |-> next]

\* A handler of the photo or photographer service that is not running; a
\* handler that has returned keeps what it answered.
IdleGTask ==
    [op |-> "none", pc |-> "idle", display_name |-> "john", photo_id |-> 0,
     offset |-> 0, limit |-> 1, doc |-> {}, counted |-> {}, status |-> 0,
     items |-> <<>>, has_more |-> FALSE, total_count |-> 0]

GFinish(g, code) == [IdleGTask EXCEPT !.op = g.op, !.status = code]

\* The photographer service and the gallery when no request is running:
\* john is registered and john's counter is past the ids in PhotoIds.
GalleryAtRest ==
    /\ photographers = {NewPhotographer("john", 0 - 1)}
    /\ counters = {NewCounter("john", 7, 0 - 1)}
    /\ gtasks = [g \in GalleryTasks |-> IdleGTask]
    /\ uploaded = <<>>
    /\ deleted = {}
    /\ overlapped = FALSE

Init ==
    /\ photos = StoredPhotos({<<"john", 5>>})
    /\ GalleryAtRest
    /\ reactions = {}
    /\ photo_stats = NoStats
    /\ tasks = [t \in Tasks |-> IdleTask]
    /\ pod = InitPod
    /\ clock = 0
    /\ nreq = 0
    /\ quota = MaxReqs
    /\ nrestart = 0
    /\ reply = NoReply
    /\ logVer = [k \in PhotoKeys |-> 0]
    /\ statsVer = [k \in PhotoKeys |-> 0]
    /\ syncHist = NoSync

\* ------------------------------------------------- reaction-service: add
\* CheckPhotoExists for a handler that goes on whatever the photo service
\* answers.
CheckPhotoExists_Ignore(req, photo_service, store) == [req EXCEPT !.pc = "find"]

\* PhotoClient.check_photo_exists: 503 when the photo service cannot be
\* reached, 404 when it has no such photo; otherwise the handler goes on.
CheckPhotoExists(req, photo_service, store) ==
    IF photo_service = "down" THEN Finish(req, 503, "none")
    ELSE IF FindPhoto(store, Key(req)) = {} THEN Finish(req, 404, "none")
    ELSE [req EXCEPT !.pc = "find"]

\* AddReaction_Validate without the check against allowed_reactions.
AddReaction_Validate_NoCheck(t) ==
    /\ tasks[t].pc = "idle"
    /\ nreq < quota
    /\ nreq' = nreq + 1
    /\ \E d \in DisplayNames, p \in PhotoIds, who \in Reactors,
          kind \in ReactionInputs, photo_service \in {"up", "down"} :
          LET req == [IdleTask EXCEPT !.op = "add", !.display_name = d, !.photo_id = p,
                                      !.reactor_name = who, !.reaction = kind]
          IN  tasks' = [tasks EXCEPT ![t] = CheckPhotoExists(req, photo_service, photos)]
    /\ UNCHANGED <<photos, gallery, quota, reply, syncHist, reactions, photo_stats, pod, clock, nrestart,
                   logVer, statsVer>>

\* add_reaction, steps 1-2: validate the emoji, then check_photo_exists.
AddReaction_Validate(t) ==
    /\ tasks[t].pc = "idle"
    /\ nreq < quota
    /\ nreq' = nreq + 1
    /\ \E d \in DisplayNames, p \in PhotoIds, who \in Reactors,
          kind \in ReactionInputs, photo_service \in {"up", "down"} :
          LET req == [IdleTask EXCEPT !.op = "add", !.display_name = d, !.photo_id = p,
                                      !.reactor_name = who, !.reaction = kind]
          IN  tasks' = [tasks EXCEPT ![t] =
                  IF kind \notin allowed_reactions THEN Finish(req, 400, "none")
                  ELSE CheckPhotoExists(req, photo_service, photos)]
    /\ UNCHANGED <<photos, gallery, quota, reply, syncHist, reactions, photo_stats, pod, clock, nrestart, logVer, statsVer>>

\* The Reaction document add_reaction builds (created_at = updated_at = utcnow()).
NewReaction(t, now) ==
    [id |-> now, display_name |-> t.display_name, photo_id |-> t.photo_id,
     reactor_name |-> t.reactor_name, reaction |-> t.reaction,
     created_at |-> now, updated_at |-> now]

\* AddReaction_Find without the lookup: the document is built and saved
\* whether or not the reactor already has a reaction on the photo.
AddReaction_Find_Overwrite(t) ==
    /\ tasks[t].pc = "find" /\ tasks[t].op = "add"
    /\ tasks' = [tasks EXCEPT ![t].pc = "save", ![t].doc = {NewReaction(tasks[t], clock)}]
    /\ clock' = clock + 1
    /\ UNCHANGED <<photos, gallery, quota, reply, syncHist, reactions, photo_stats, pod, nreq, nrestart,
                   logVer, statsVer>>

\* add_reaction, step 4 and the construction of step 5: find_one, 409 when
\* a reaction exists, otherwise build the document.
AddReaction_Find(t) ==
    /\ tasks[t].pc = "find" /\ tasks[t].op = "add"
    /\ IF FindReaction(reactions, Key(tasks[t]), tasks[t].reactor_name) # {}
       THEN /\ tasks' = [tasks EXCEPT ![t] = Finish(@, 409, "none")]
            /\ clock' = clock
       ELSE /\ tasks' = [tasks EXCEPT ![t].pc = "save",
                                      ![t].doc = {NewReaction(tasks[t], clock)}]
            /\ clock' = clock + 1
    /\ UNCHANGED <<photos, gallery, quota, reply, syncHist, reactions, photo_stats, pod, nreq, nrestart, logVer, statsVer>>

\* Document.save(): write the document under its _id, inserting it when no
\* document has that _id.
SaveDocument(log, doc) == {r \in log : r.id # doc.id} \cup {doc}

\* add_reaction, step 5: await reaction.save()
AddReaction_Save(t) ==
    /\ tasks[t].pc = "save" /\ tasks[t].op = "add"
    /\ \E doc \in tasks[t].doc :
          /\ reactions' = SaveDocument(reactions, doc)
          /\ logVer' = [logVer EXCEPT ![Key(doc)] = @ + 1]
    /\ tasks' = [tasks EXCEPT ![t].pc = "notify", ![t].wrote = TRUE]
    /\ syncHist' = NoSync
    /\ UNCHANGED <<photos, gallery, quota, reply, photo_stats, pod, clock, nreq, nrestart, statsVer>>

\* PhotoOfDayClient.increment_reaction when the gRPC server is not up: the
\* RpcError is logged and add_reaction answers 201.
IncrementReaction_Unavailable(t) ==
    /\ tasks[t].pc = "notify"
    /\ pod.pc # "serving"
    /\ tasks' = [tasks EXCEPT ![t] = Finish(@, 201, "none")]
    /\ UNCHANGED <<photos, gallery, quota, reply, syncHist, reactions, photo_stats, pod, clock, nreq, nrestart,
          logVer, statsVer>>

\* -------------------------------------- photo-of-day: recalculate_stats
\* RecalculateStats_Read for a server that accepts RPCs before the resync
\* pass has returned.
RecalculateStats_Read_Unfenced(t) ==
    /\ tasks[t].pc = "notify"
    /\ tasks' = [tasks EXCEPT ![t].pc = "recalc_write",
                              ![t].read = ReactionsOf(reactions, Key(tasks[t])),
                              ![t].readVer = logVer[Key(tasks[t])]]
    /\ UNCHANGED <<photos, gallery, quota, reply, syncHist, reactions, photo_stats, pod, clock, nreq,
                   nrestart, logVer, statsVer>>

\* IncrementReaction -> recalculate_stats: read the photo's reactions.
RecalculateStats_Read(t) ==
    /\ tasks[t].pc = "notify"
    /\ pod.pc = "serving"
    /\ tasks' = [tasks EXCEPT ![t].pc = "recalc_write",
                              ![t].read = ReactionsOf(reactions, Key(tasks[t])),
                              ![t].readVer = logVer[Key(tasks[t])]]
    /\ UNCHANGED <<photos, gallery, quota, reply, syncHist, reactions, photo_stats, pod, clock, nreq, nrestart, logVer, statsVer>>

\* RecalcResult without the early return for an empty list: a record with
\* total 0 is upserted.
RecalcResult_ZeroRecord(stats, k, list) ==
    IF list = {}
    THEN Upsert(stats, k, [total_reactions |-> 0, reaction_breakdown |-> Breakdown({}),
                           first_reaction_date |-> IsoFormat(clock),
                           last_reaction_date |-> IsoFormat(clock)])
    ELSE Upsert(stats, k, StatsDoc(list))

\* RecalcResult that adds one to the stored total instead of storing the
\* aggregate of the list.
RecalcResult_Incremental(stats, k, list) ==
    IF list = {} THEN DeleteOne(stats, k)
    ELSE IF k \in DOMAIN stats
         THEN Upsert(stats, k, [stats[k] EXCEPT !.total_reactions = @ + 1])
         ELSE Upsert(stats, k, StatsDoc(list))

\* RecalcResult whose "$set" carries only the total and the breakdown: the
\* dates of a record already stored stay as they are.
RecalcResult_TotalOnly(stats, k, list) ==
    IF list = {} THEN DeleteOne(stats, k)
    ELSE IF k \in DOMAIN stats
         THEN Upsert(stats, k, [stats[k] EXCEPT
                                   !.total_reactions = StatsDoc(list).total_reactions,
                                   !.reaction_breakdown = StatsDoc(list).reaction_breakdown])
         ELSE Upsert(stats, k, StatsDoc(list))

\* recalculate_stats: delete_one when the list is empty, else the upsert.
RecalcResult(stats, k, list) ==
    IF list = {} THEN DeleteOne(stats, k) ELSE Upsert(stats, k, StatsDoc(list))

\* recalculate_stats: the write, then the handler and add_reaction return.
RecalculateStats_Write(t) ==
    /\ tasks[t].pc = "recalc_write"
    /\ photo_stats' = RecalcResult(photo_stats, Key(tasks[t]), tasks[t].read)
    /\ statsVer' = [statsVer EXCEPT ![Key(tasks[t])] = tasks[t].readVer]
    /\ tasks' = [tasks EXCEPT ![t] =
           Finish([@ EXCEPT !.response =
                      IncrementReactionResponse(TRUE, Cardinality(tasks[t].read))],
                  201, "ok")]
    /\ UNCHANGED <<photos, gallery, quota, reply, syncHist, reactions, pod, clock, nreq, nrestart, logVer>>

\* recalculate_stats: a storage error in the read or in the write is caught,
\* logged, and 0 is returned; IncrementReaction answers success.
RecalculateStats_Fail(t) ==
    /\ \/ tasks[t].pc = "notify" /\ pod.pc = "serving"
       \/ tasks[t].pc = "recalc_write"
    /\ tasks' = [tasks EXCEPT ![t] =
           Finish([@ EXCEPT !.response = IncrementReactionResponse(TRUE, 0)],
                  201, "failed")]
    /\ UNCHANGED <<photos, gallery, quota, reply, syncHist, reactions, photo_stats, pod, clock, nreq, nrestart,
          logVer, statsVer>>

\* ---------------------------------------------- reaction-service: update
\* update_reaction, steps 1-2: validate the emoji, then check_photo_exists.
UpdateReaction_Validate(t) ==
    /\ tasks[t].pc = "idle"
    /\ nreq < quota
    /\ nreq' = nreq + 1
    /\ \E d \in DisplayNames, p \in PhotoIds, who \in Reactors,
          kind \in ReactionInputs, photo_service \in {"up", "down"} :
          LET req == [IdleTask EXCEPT !.op = "update", !.display_name = d, !.photo_id = p,
                                      !.reactor_name = who, !.reaction = kind]
          IN  tasks' = [tasks EXCEPT ![t] =
                  IF kind \notin allowed_reactions THEN Finish(req, 400, "none")
                  ELSE CheckPhotoExists(req, photo_service, photos)]
    /\ UNCHANGED <<photos, gallery, quota, reply, syncHist, reactions, photo_stats, pod, clock, nrestart, logVer, statsVer>>

\* UpdateReaction_Find that creates the reaction when there is none.
UpdateReaction_Find_Upsert(t) ==
    /\ tasks[t].pc = "find" /\ tasks[t].op = "update"
    /\ LET found == FindReaction(reactions, Key(tasks[t]), tasks[t].reactor_name)
       IN  IF found = {}
           THEN tasks' = [tasks EXCEPT ![t].pc = "save",
                                       ![t].doc = {NewReaction(tasks[t], clock)}]
           ELSE \E r \in found :
                    tasks' = [tasks EXCEPT ![t].pc = "save",
                                 ![t].doc = {[r EXCEPT !.reaction = tasks[t].reaction,
                                                       !.updated_at = clock]}]
    /\ clock' = clock + 1
    /\ UNCHANGED <<photos, gallery, quota, reply, syncHist, reactions, photo_stats, pod, nreq, nrestart,
                   logVer, statsVer>>

\* update_reaction, step 3 and the assignments of step 4: find_one, 404 when
\* there is none, otherwise set reaction and updated_at on the document read.
UpdateReaction_Find(t) ==
    /\ tasks[t].pc = "find" /\ tasks[t].op = "update"
    /\ LET found == FindReaction(reactions, Key(tasks[t]), tasks[t].reactor_name)
       IN  IF found = {}
           THEN /\ tasks' = [tasks EXCEPT ![t] = Finish(@, 404, "none")]
                /\ clock' = clock
           ELSE /\ \E r \in found :
                     tasks' = [tasks EXCEPT ![t].pc = "save",
                                  ![t].doc = {[r EXCEPT !.reaction = tasks[t].reaction,
                                                        !.updated_at = clock]}]
                /\ clock' = clock + 1
    /\ UNCHANGED <<photos, gallery, quota, reply, syncHist, reactions, photo_stats, pod, nreq, nrestart, logVer, statsVer>>

\* What follows the log write of update_reaction and delete_reaction:
\* photo_of_day_client.update_reaction / .decrement_reaction. PhotoOfDayClient
\* defines only connect and increment_reaction, so the attribute lookup
\* raises AttributeError: no RPC is sent and the request answers 500.
AfterLogWrite(t) == Finish([t EXCEPT !.wrote = TRUE], 500, "none")

\* update_reaction, step 4: await reaction.save(), then the client call.
UpdateReaction_Save(t) ==
    /\ tasks[t].pc = "save" /\ tasks[t].op = "update"
    /\ \E doc \in tasks[t].doc :
          /\ reactions' = SaveDocument(reactions, doc)
          /\ logVer' = [logVer EXCEPT ![Key(doc)] = @ + 1]
    /\ tasks' = [tasks EXCEPT ![t] = AfterLogWrite(@)]
    /\ syncHist' = NoSync
    /\ UNCHANGED <<photos, gallery, quota, reply, photo_stats, pod, clock, nreq, nrestart, statsVer>>

\* ---------------------------------------------- reaction-service: delete
\* delete_reaction, step 1: check_photo_exists.
DeleteReaction_CheckPhoto(t) ==
    /\ tasks[t].pc = "idle"
    /\ nreq < quota
    /\ nreq' = nreq + 1
    /\ \E d \in DisplayNames, p \in PhotoIds, who \in Reactors,
          photo_service \in {"up", "down"} :
          LET req == [IdleTask EXCEPT !.op = "delete", !.display_name = d, !.photo_id = p,
                                      !.reactor_name = who]
          IN  tasks' = [tasks EXCEPT ![t] = CheckPhotoExists(req, photo_service, photos)]
    /\ UNCHANGED <<photos, gallery, quota, reply, syncHist, reactions, photo_stats, pod, clock, nrestart, logVer, statsVer>>

\* DeleteReaction_Find that removes the photo's stats record when the
\* reaction to delete is not there.
DeleteReaction_Find_DropStats(t) ==
    /\ tasks[t].pc = "find" /\ tasks[t].op = "delete"
    /\ LET found == FindReaction(reactions, Key(tasks[t]), tasks[t].reactor_name)
       IN  IF found = {}
           THEN /\ tasks' = [tasks EXCEPT ![t] = Finish(@, 404, "none")]
                /\ photo_stats' = DeleteOne(photo_stats, Key(tasks[t]))
           ELSE /\ \E r \in found :
                     tasks' = [tasks EXCEPT ![t].pc = "delete", ![t].doc = {r},
                                            ![t].reaction = r.reaction]
                /\ photo_stats' = photo_stats
    /\ UNCHANGED <<photos, gallery, quota, reply, syncHist, reactions, pod, clock, nreq, nrestart,
                   logVer, statsVer>>

\* delete_reaction, step 2: find_one, 404 when there is none.
DeleteReaction_Find(t) ==
    /\ tasks[t].pc = "find" /\ tasks[t].op = "delete"
    /\ LET found == FindReaction(reactions, Key(tasks[t]), tasks[t].reactor_name)
       IN  IF found = {}
           THEN tasks' = [tasks EXCEPT ![t] = Finish(@, 404, "none")]
           ELSE \E r \in found :
                    tasks' = [tasks EXCEPT ![t].pc = "delete", ![t].doc = {r},
                                           ![t].reaction = r.reaction]
    /\ UNCHANGED <<photos, gallery, quota, reply, syncHist, reactions, photo_stats, pod, clock, nreq, nrestart, logVer, statsVer>>

\* Document.delete(): remove the document with this _id, if it is still there.
DeleteDocument(log, doc) == {r \in log : r.id # doc.id}

\* delete_reaction, step 3: await reaction.delete(), then the client call.
DeleteReaction_Delete(t) ==
    /\ tasks[t].pc = "delete"
    /\ \E doc \in tasks[t].doc :
          /\ reactions' = DeleteDocument(reactions, doc)
          /\ logVer' = [logVer EXCEPT ![Key(doc)] = @ + 1]
    /\ tasks' = [tasks EXCEPT ![t] = AfterLogWrite(@)]
    /\ syncHist' = NoSync
    /\ UNCHANGED <<photos, gallery, quota, reply, photo_stats, pod, clock, nreq, nrestart, statsVer>>

\* -------------------------------- photo-of-day: sync_existing_reactions
\* photos_reactions: the reactions grouped by (display_name, photo_id).
GroupByPhoto(list) == [k \in {Key(r) : r \in list} |-> ReactionsOf(list, k)]

\* sync_existing_reactions: reactions_collection.find({}).to_list() and the
\* grouping loop.
Sync_Read ==
    /\ pod.pc = "sync_read"
    /\ LET groups == GroupByPhoto(reactions)
       IN  pod' = [pod EXCEPT !.pc = "sync_upsert", !.photos_reactions = groups,
                              !.pending = DOMAIN groups, !.readVer = logVer]
    /\ UNCHANGED <<photos, gallery, quota, reply, syncHist, reactions, photo_stats, tasks, clock, nreq, nrestart, logVer, statsVer>>

\* Sync_Upsert with "$inc" on total_reactions where the code has "$set".
Sync_Upsert_Increment ==
    /\ pod.pc = "sync_upsert"
    /\ \E k \in pod.pending :
          LET doc == StatsDoc(pod.photos_reactions[k])
              before == IF k \in DOMAIN photo_stats THEN photo_stats[k].total_reactions ELSE 0
          IN  /\ photo_stats' = Upsert(photo_stats, k,
                                       [doc EXCEPT !.total_reactions = @ + before])
              /\ statsVer' = [statsVer EXCEPT ![k] = pod.readVer[k]]
              /\ pod' = [pod EXCEPT !.pending = @ \ {k}]
    /\ UNCHANGED <<photos, gallery, quota, reply, syncHist, reactions, tasks, clock, nreq, nrestart,
                   logVer>>

\* sync_existing_reactions: one pass of the update loop.
Sync_Upsert ==
    /\ pod.pc = "sync_upsert"
    /\ \E k \in pod.pending :
          /\ photo_stats' = Upsert(photo_stats, k, StatsDoc(pod.photos_reactions[k]))
          /\ statsVer' = [statsVer EXCEPT ![k] = pod.readVer[k]]
          /\ pod' = [pod EXCEPT !.pending = @ \ {k}]
    /\ UNCHANGED <<photos, gallery, quota, reply, syncHist, reactions, tasks, clock, nreq, nrestart, logVer>>

\* Orphans for a resync that prunes nothing.
Orphans_None(stats, groups) == {}

\* The photo_stats keys the resync removes: those with no group.
Orphans(stats, groups) == DOMAIN stats \ DOMAIN groups

\* sync_existing_reactions: collection.find({}, ...).to_list() after the loop.
Sync_List ==
    /\ pod.pc = "sync_upsert" /\ pod.pending = {}
    /\ pod' = [pod EXCEPT !.pc = "sync_prune",
                          !.orphans = Orphans(photo_stats, pod.photos_reactions)]
    /\ UNCHANGED <<photos, gallery, quota, reply, syncHist, reactions, photo_stats, tasks, clock, nreq, nrestart, logVer, statsVer>>

\* sync_existing_reactions: one delete_one of the pruning loop.
Sync_Prune ==
    /\ pod.pc = "sync_prune"
    /\ \E k \in pod.orphans :
          /\ photo_stats' = DeleteOne(photo_stats, k)
          /\ statsVer' = [statsVer EXCEPT ![k] = pod.readVer[k]]
          /\ pod' = [pod EXCEPT !.orphans = @ \ {k}]
    /\ UNCHANGED <<photos, gallery, quota, reply, syncHist, reactions, tasks, clock, nreq, nrestart, logVer>>

\* The photo-of-day service once serve() has started the gRPC server.
Serving == [InitPod EXCEPT !.pc = "serving", !.sync = "done"]

\* sync_existing_reactions returns and serve() starts the gRPC server.
Sync_Done ==
    /\ pod.pc = "sync_prune" /\ pod.orphans = {}
    /\ pod' = Serving
    /\ syncHist' = IF pod.readVer = logVer
                   THEN [count |-> syncHist.count + 1, store |-> photo_stats]
                   ELSE NoSync
    /\ UNCHANGED <<photos, gallery, quota, reply, reactions, photo_stats, tasks, clock, nreq, nrestart, logVer, statsVer>>

\* Sync_Fail without the except clause: the exception leaves serve().
Sync_Fail_Propagate ==
    /\ pod.pc \in {"sync_read", "sync_upsert", "sync_prune"}
    /\ pod' = [InitPod EXCEPT !.pc = "crashed", !.sync = "failed"]
    /\ UNCHANGED <<photos, gallery, quota, reply, syncHist, reactions, photo_stats, tasks, clock, nreq,
                   nrestart, logVer, statsVer>>

\* sync_existing_reactions: any exception ends the pass; it is logged and
\* serve() goes on.
Sync_Fail ==
    /\ pod.pc \in {"sync_read", "sync_upsert", "sync_prune"}
    /\ pod' = [Serving EXCEPT !.sync = "failed"]
    /\ UNCHANGED <<photos, gallery, quota, reply, syncHist, reactions, photo_stats, tasks, clock, nreq, nrestart, logVer, statsVer>>

\* The photo-of-day process stops and is started again: the RPCs it was
\* serving end in an RpcError at the caller, and serve() runs from the top.
Restart ==
    /\ pod.pc = "serving"
    /\ nrestart < MaxRestarts
    /\ nrestart' = nrestart + 1
    /\ pod' = InitPod
    /\ tasks' = [t \in Tasks |->
                    IF tasks[t].pc = "recalc_write" THEN Finish(tasks[t], 201, "failed")
                    ELSE tasks[t]]
    /\ UNCHANGED <<photos, gallery, quota, reply, syncHist, reactions, photo_stats, clock, nreq, logVer, statsVer>>

\* ------------------------------------------- photo-of-day: GetPhotoOfDay
RECURSIVE StrLeq(_, _)
\* a <= b on isoformat strings, as the "$gte"/"$lte" of the query compare
\* them: position by position, a proper prefix being the smaller.
StrLeq(a, b) ==
    IF a = <<>> THEN TRUE
    ELSE IF b = <<>> THEN FALSE
    ELSE IF Head(a) # Head(b) THEN Head(a) < Head(b)
    ELSE StrLeq(Tail(a), Tail(b))

\* datetime.fromtimestamp(seconds).isoformat()
FromTimestamp(seconds) == IsoFormat(seconds * TicksPerSecond)

\* The filter of GetPhotoOfDay's find_one.
MatchesWindow(doc, start_iso, end_iso) ==
    /\ StrLeq(start_iso, doc.last_reaction_date)
    /\ StrLeq(doc.last_reaction_date, end_iso)
    /\ doc.total_reactions > 0

\* find_one(filter, sort=[("total_reactions", -1)]): the documents it may
\* return, those of the matches with the greatest total.
FindBest(stats, start_iso, end_iso) ==
    LET matches == {k \in DOMAIN stats : MatchesWindow(stats[k], start_iso, end_iso)}
    IN  {k \in matches : \A j \in matches : stats[j].total_reactions <= stats[k].total_reactions}

\* GetPhotoOfDayResponse, with the request it answers.
GetPhotoOfDayResponse(start, end, k, total) ==
    [NoReply EXCEPT !.rpc = "GetPhotoOfDay", !.status = "OK", !.start = start,
                    !.end = end, !.found = TRUE, !.display_name = k[1],
                    !.photo_id = k[2], !.total_reactions = total]

\* GetPhotoOfDay, whole handler: the query, found=False when nothing
\* matches, and INTERNAL with found=False when the query raises.
GetPhotoOfDay ==
    /\ pod.pc = "serving"
    /\ \E start, end \in 0..MaxTimestamp, storage \in {"ok", "error"} :
          LET best == FindBest(photo_stats, FromTimestamp(start), FromTimestamp(end))
              none == [NoReply EXCEPT !.rpc = "GetPhotoOfDay", !.start = start, !.end = end]
          IN  IF storage = "error" THEN reply' = [none EXCEPT !.status = "INTERNAL"]
              ELSE IF best = {} THEN reply' = [none EXCEPT !.status = "OK"]
              ELSE \E k \in best :
                      reply' = GetPhotoOfDayResponse(start, end, k,
                                                     photo_stats[k].total_reactions)
    /\ UNCHANGED <<photos, gallery, quota, syncHist, reactions, photo_stats, tasks, pod, clock, nreq,
                   nrestart, logVer, statsVer>>

\* -------------------------------------------- photo-of-day: GetPhotoStats
\* int(datetime.fromisoformat(date).timestamp()): the whole seconds.
ToTimestamp(date) == date[1]

\* GetPhotoStatsResponse(found=True, ...)
GetPhotoStatsResponse(k, doc) ==
    [NoReply EXCEPT !.rpc = "GetPhotoStats", !.status = "OK", !.found = TRUE,
                    !.display_name = k[1], !.photo_id = k[2],
                    !.total_reactions = doc.total_reactions,
                    !.reaction_breakdown = doc.reaction_breakdown,
                    !.first_reaction_timestamp = ToTimestamp(doc.first_reaction_date),
                    !.last_reaction_timestamp = ToTimestamp(doc.last_reaction_date)]

\* GetPhotoStats that creates an empty record when the photo has none.
GetPhotoStats_Creating ==
    /\ pod.pc = "serving"
    /\ \E k \in PhotoKeys, storage \in {"ok", "error"} :
          LET none == [NoReply EXCEPT !.rpc = "GetPhotoStats"]
              empty == [total_reactions |-> 0, reaction_breakdown |-> Breakdown({}),
                        first_reaction_date |-> IsoFormat(clock),
                        last_reaction_date |-> IsoFormat(clock)]
          IN  IF storage = "error"
              THEN reply' = [none EXCEPT !.status = "INTERNAL"] /\ photo_stats' = photo_stats
              ELSE IF k \notin DOMAIN photo_stats
                   THEN /\ reply' = [none EXCEPT !.status = "OK"]
                        /\ photo_stats' = Upsert(photo_stats, k, empty)
                   ELSE /\ reply' = GetPhotoStatsResponse(k, photo_stats[k])
                        /\ photo_stats' = photo_stats
    /\ UNCHANGED <<photos, gallery, quota, syncHist, reactions, tasks, pod, clock, nreq,
                   nrestart, logVer, statsVer>>

\* GetPhotoStats, whole handler: find_one by key, found=False when there is
\* no record, and INTERNAL with found=False when the query raises.
GetPhotoStats ==
    /\ pod.pc = "serving"
    /\ \E k \in PhotoKeys, storage \in {"ok", "error"} :
          LET none == [NoReply EXCEPT !.rpc = "GetPhotoStats"]
          IN  IF storage = "error" THEN reply' = [none EXCEPT !.status = "INTERNAL"]
              ELSE IF k \notin DOMAIN photo_stats THEN reply' = [none EXCEPT !.status = "OK"]
              ELSE reply' = GetPhotoStatsResponse(k, photo_stats[k])
    /\ UNCHANGED <<photos, gallery, quota, syncHist, reactions, photo_stats, tasks, pod, clock, nreq,
                   nrestart, logVer, statsVer>>

\* ------------------------------------------ photographer-service: CRUD
\* What the reaction service and the photo-of-day service read and write,
\* besides photos and the clock.
reacting == <<reactions, photo_stats, tasks, pod, quota, nrestart, reply, logVer,
              statsVer, syncHist>>

\* Photographer.find_one(display_name == d): the matches.
FindPhotographer(store, d) == {r \in store : r.display_name = d}

\* get_photographer: 200 with the document, 404 when there is none.
GetPhotographer(store, d) == IF FindPhotographer(store, d) = {} THEN 404 ELSE 200

\* create_photographer: find_one, 409 when a photographer has the name.
CreatePhotographer_Find(g) ==
    /\ gtasks[g].pc = "idle"
    /\ nreq < quota
    /\ nreq' = nreq + 1
    /\ \E d \in DisplayNames :
          LET req == [IdleGTask EXCEPT !.op = "create_photographer", !.display_name = d]
          IN  gtasks' = [gtasks EXCEPT ![g] =
                  IF FindPhotographer(photographers, d) # {} THEN GFinish(req, 409)
                  ELSE [req EXCEPT !.pc = "insert"]]
    /\ UNCHANGED <<photos, photographers, counters, uploaded, deleted, overlapped, clock,
                   reacting>>

\* create_photographer: await photographer.insert(), then 201. The only
\* index on display_name is not unique, so the insert never fails.
CreatePhotographer_Insert(g) ==
    /\ gtasks[g].pc = "insert"
    /\ photographers' = photographers \cup {NewPhotographer(gtasks[g].display_name, clock)}
    /\ clock' = clock + 1
    /\ gtasks' = [gtasks EXCEPT ![g] = GFinish(@, 201)]
    /\ UNCHANGED <<photos, counters, uploaded, deleted, overlapped, nreq, reacting>>

\* delete_photographer: find_one, 404 when there is none.
DeletePhotographer_Find(g) ==
    /\ gtasks[g].pc = "idle"
    /\ nreq < quota
    /\ nreq' = nreq + 1
    /\ \E d \in DisplayNames :
          LET req == [IdleGTask EXCEPT !.op = "delete_photographer", !.display_name = d]
              found == FindPhotographer(photographers, d)
          IN  IF found = {} THEN gtasks' = [gtasks EXCEPT ![g] = GFinish(req, 404)]
              ELSE \E r \in found :
                      gtasks' = [gtasks EXCEPT ![g] =
                                    [req EXCEPT !.pc = "delete_photographer", !.doc = {r}]]
    /\ UNCHANGED <<photos, photographers, counters, uploaded, deleted, overlapped, clock,
                   reacting>>

\* delete_photographer: await photographer.delete(), then 204.
DeletePhotographer_Delete(g) ==
    /\ gtasks[g].pc = "delete_photographer"
    /\ \E doc \in gtasks[g].doc : photographers' = DeleteDocument(photographers, doc)
    /\ gtasks' = [gtasks EXCEPT ![g] = GFinish(@, 204)]
    /\ UNCHANGED <<photos, counters, uploaded, deleted, overlapped, clock, nreq, reacting>>

\* -------------------------------------------- photo-service: the gallery
\* PhotographerClient.check_photographer_exists: 503 when the photographer
\* service cannot be reached, 404 when it has no such photographer.
CheckPhotographerExists(req, photographer_service, store) ==
    IF photographer_service = "down" THEN GFinish(req, 503)
    ELSE IF GetPhotographer(store, req.display_name) = 404 THEN GFinish(req, 404)
    ELSE [req EXCEPT !.pc = "checked"]

\* upload_photo, steps 1-3: check_photographer_exists, then
\* validate_and_process_image (400 for a file that is not an image).
UploadPhoto_Check(g) ==
    /\ gtasks[g].pc = "idle"
    /\ nreq < quota
    /\ nreq' = nreq + 1
    /\ \E d \in DisplayNames, photographer_service \in {"up", "down"},
          file \in {"image", "not_an_image"} :
          LET req == [IdleGTask EXCEPT !.op = "upload", !.display_name = d]
              checked == CheckPhotographerExists(req, photographer_service, photographers)
          IN  gtasks' = [gtasks EXCEPT ![g] =
                  IF checked.pc # "checked" THEN checked
                  ELSE IF file # "image" THEN GFinish(req, 400)
                  ELSE [req EXCEPT !.pc = "allocate"]]
    /\ overlapped' = (overlapped \/ \E h \in GalleryTasks \ {g} :
                                       gtasks[h].op = "upload" /\ gtasks[h].pc # "idle")
    /\ UNCHANGED <<photos, photographers, counters, uploaded, deleted, clock, reacting>>

\* PhotoIdCounter.find_one(display_name == d): the matches.
FindCounter(store, d) == {c \in store : c.display_name = d}

\* allocate_photo_id: the find_one; the handler holds the document read.
AllocatePhotoId_Find(g) ==
    /\ gtasks[g].pc = "allocate"
    /\ LET found == FindCounter(counters, gtasks[g].display_name)
       IN  IF found = {}
           THEN gtasks' = [gtasks EXCEPT ![g].pc = "counter_save", ![g].doc = {}]
           ELSE \E c \in found :
                   gtasks' = [gtasks EXCEPT ![g].pc = "counter_save", ![g].doc = {c}]
    /\ UNCHANGED <<photos, photographers, counters, uploaded, deleted, overlapped, clock,
                   nreq, reacting>>

\* allocate_photo_id with the first id taken from next_photo_id's default
\* and the counter left where it was read.
AllocatePhotoId_Save_NoIncrement(g) ==
    /\ gtasks[g].pc = "counter_save"
    /\ IF gtasks[g].doc = {}
       THEN /\ counters' = counters \cup {NewCounter(gtasks[g].display_name, 0, clock)}
            /\ clock' = clock + 1
            /\ gtasks' = [gtasks EXCEPT ![g].pc = "photo_save", ![g].photo_id = 0,
                                        ![g].doc = {}]
       ELSE \E c \in gtasks[g].doc :
               /\ counters' = SaveDocument(counters, c)
               /\ clock' = clock
               /\ gtasks' = [gtasks EXCEPT ![g].pc = "photo_save",
                                           ![g].photo_id = c.next_photo_id,
                                           ![g].doc = {}]
    /\ UNCHANGED <<photos, photographers, uploaded, deleted, overlapped, nreq, reacting>>

\* allocate_photo_id: counter.save(). With no counter read, a new document
\* with next_photo_id = 1 is saved and the id is 0; otherwise the id is the
\* next_photo_id that was read and the document is saved with it plus one.
AllocatePhotoId_Save(g) ==
    /\ gtasks[g].pc = "counter_save"
    /\ IF gtasks[g].doc = {}
       THEN /\ counters' = counters \cup {NewCounter(gtasks[g].display_name, 1, clock)}
            /\ clock' = clock + 1
            /\ gtasks' = [gtasks EXCEPT ![g].pc = "photo_save", ![g].photo_id = 0,
                                        ![g].doc = {}]
       ELSE \E c \in gtasks[g].doc :
               /\ counters' = SaveDocument(counters, [c EXCEPT !.next_photo_id = @ + 1])
               /\ clock' = clock
               /\ gtasks' = [gtasks EXCEPT ![g].pc = "photo_save",
                                           ![g].photo_id = c.next_photo_id,
                                           ![g].doc = {}]
    /\ UNCHANGED <<photos, photographers, uploaded, deleted, overlapped, nreq, reacting>>

\* upload_photo, step 5: await photo.save(), then 201 with the photo_id.
UploadPhoto_Save(g) ==
    /\ gtasks[g].pc = "photo_save"
    /\ photos' = photos \cup {NewPhoto(gtasks[g].display_name, gtasks[g].photo_id, clock)}
    /\ clock' = clock + 1
    /\ uploaded' = Append(uploaded, gtasks[g].photo_id)
    /\ gtasks' = [gtasks EXCEPT ![g] = [GFinish(@, 201) EXCEPT !.photo_id = gtasks[g].photo_id]]
    /\ UNCHANGED <<photographers, counters, deleted, overlapped, nreq, reacting>>

\* ------------------------------------------------ photo-service: a photo
\* get_photo_image / get_photo_attributes: 200, or 404 when find_one has
\* no match.
GetPhotoImage(store, k) == IF FindPhoto(store, k) = {} THEN 404 ELSE 200

\* delete_photo: find_one, 404 when there is none.
DeletePhoto_Find(g) ==
    /\ gtasks[g].pc = "idle"
    /\ nreq < quota
    /\ nreq' = nreq + 1
    /\ \E d \in DisplayNames, p \in PhotoIdInputs :
          LET req == [IdleGTask EXCEPT !.op = "delete_photo", !.display_name = d]
              found == FindPhoto(photos, <<d, p>>)
          IN  IF found = {} THEN gtasks' = [gtasks EXCEPT ![g] = GFinish(req, 404)]
              ELSE \E r \in found :
                      gtasks' = [gtasks EXCEPT ![g] =
                                    [req EXCEPT !.pc = "delete_photo", !.photo_id = p,
                                                !.doc = {r}]]
    /\ UNCHANGED <<photos, photographers, counters, uploaded, deleted, overlapped, clock,
                   reacting>>

\* delete_photo: await photo.delete(), then 204. Nothing else is deleted.
DeletePhoto_Delete(g) ==
    /\ gtasks[g].pc = "delete_photo"
    /\ \E doc \in gtasks[g].doc :
          /\ photos' = DeleteDocument(photos, doc)
          /\ deleted' = deleted \cup {Key(p) : p \in photos \ photos'}
    /\ gtasks' = [gtasks EXCEPT ![g] = GFinish(@, 204)]
    /\ UNCHANGED <<photographers, counters, uploaded, overlapped, clock, nreq, reacting>>

\* ------------------------------------- photo-service: get_photo_of_day
\* get_photo_of_day, steps 1-2: 400 unless start is before end, then
\* PhotoOfDayClient.get_photo_of_day, which is the GetPhotoOfDay RPC and
\* gives None for found=False and for an RpcError; None is answered 404.
PhotoOfDay_Call(g) ==
    /\ gtasks[g].pc = "idle"
    /\ nreq < quota
    /\ nreq' = nreq + 1
    /\ \E start, end \in 0..MaxTimestamp, storage \in {"ok", "error"} :
          LET req == [IdleGTask EXCEPT !.op = "get_photo_of_day"]
              best == FindBest(photo_stats, FromTimestamp(start), FromTimestamp(end))
              none == [NoReply EXCEPT !.rpc = "GetPhotoOfDay", !.start = start, !.end = end]
          IN  IF start >= end
              THEN gtasks' = [gtasks EXCEPT ![g] = GFinish(req, 400)] /\ reply' = reply
              ELSE IF pod.pc # "serving"
              THEN gtasks' = [gtasks EXCEPT ![g] = GFinish(req, 404)] /\ reply' = reply
              ELSE IF storage = "error"
              THEN /\ gtasks' = [gtasks EXCEPT ![g] = GFinish(req, 404)]
                   /\ reply' = [none EXCEPT !.status = "INTERNAL"]
              ELSE IF best = {}
              THEN /\ gtasks' = [gtasks EXCEPT ![g] = GFinish(req, 404)]
                   /\ reply' = [none EXCEPT !.status = "OK"]
              ELSE \E k \in best :
                      /\ reply' = GetPhotoOfDayResponse(start, end, k,
                                                        photo_stats[k].total_reactions)
                      /\ gtasks' = [gtasks EXCEPT ![g] =
                                       [req EXCEPT !.pc = "photo_lookup",
                                                   !.display_name = k[1], !.photo_id = k[2]]]
    /\ UNCHANGED <<photos, photographers, counters, uploaded, deleted, overlapped, clock,
                   reactions, photo_stats, tasks, pod, quota, nrestart, logVer, statsVer,
                   syncHist>>

\* get_photo_of_day, step 3: Photo.find_one for the photo the RPC named;
\* 500 "Photo found in stats but not in database" when there is none.
PhotoOfDay_Lookup(g) ==
    /\ gtasks[g].pc = "photo_lookup"
    /\ gtasks' = [gtasks EXCEPT ![g] =
           IF FindPhoto(photos, <<gtasks[g].display_name, gtasks[g].photo_id>>) = {}
           THEN GFinish(@, 500)
           ELSE [GFinish(@, 200) EXCEPT !.photo_id = gtasks[g].photo_id]]
    /\ UNCHANGED <<photos, photographers, counters, uploaded, deleted, overlapped, clock,
                   nreq, reacting>>

\* ---------------------------------------------------------- the listings
RECURSIVE SortDocs(_, _)
\* find(...).sort(field).to_list(): the documents in ascending order of the
\* field (documents with equal values in the order of their _id).
SortDocs(docs, field) ==
    IF docs = {} THEN <<>>
    ELSE LET first == CHOOSE x \in docs : \A y \in docs :
                          \/ x[field] < y[field]
                          \/ x[field] = y[field] /\ x.id <= y.id
         IN  <<first>> \o SortDocs(docs \ {first}, field)

\* cursor.skip(offset).limit(n)
SkipLimit(list, offset, n) == SubSeq(list, offset + 1, Min({Len(list), offset + n}))

\* Both listings: limit + 1 documents are fetched, has_more says whether the
\* extra one came, and the items are the first limit of them.
Page_NoExtra(sorted, offset, limit) ==
    LET fetched == SkipLimit(sorted, offset, limit)
    IN  [items |-> fetched, has_more |-> Len(fetched) >= limit]

Page(sorted, offset, limit) ==
    LET fetched == SkipLimit(sorted, offset, limit + 1)
        has_more == Len(fetched) > limit
    IN  [items |-> IF has_more THEN SubSeq(fetched, 1, limit) ELSE fetched,
         has_more |-> has_more]

\* Photo.find(Photo.display_name == d)
PhotosOf(store, d) == {p \in store : p.display_name = d}

\* The response of a listing, kept by the handler that has returned.
Listed(g, items, has_more, total_count) ==
    [GFinish(g, 200) EXCEPT !.items = items, !.has_more = has_more,
                            !.total_count = total_count]

\* list_photos: check_photographer_exists, then the count(); an empty
\* response at once when the count is 0.
ListPhotos_Count(g) ==
    /\ gtasks[g].pc = "idle"
    /\ nreq < quota
    /\ nreq' = nreq + 1
    /\ \E d \in DisplayNames, offset \in 0..MaxOffset, limit \in 1..MaxLimit,
          photographer_service \in {"up", "down"} :
          LET req == [IdleGTask EXCEPT !.op = "list_photos", !.display_name = d,
                                       !.offset = offset, !.limit = limit]
              checked == CheckPhotographerExists(req, photographer_service, photographers)
          IN  gtasks' = [gtasks EXCEPT ![g] =
                  IF checked.pc # "checked" THEN checked
                  ELSE IF Cardinality(PhotosOf(photos, d)) = 0 THEN Listed(req, <<>>, FALSE, 0)
                  ELSE [req EXCEPT !.pc = "list_photos_find",
                                   !.counted = PhotosOf(photos, d),
                                   !.total_count = Cardinality(PhotosOf(photos, d))]]
    /\ UNCHANGED <<photos, photographers, counters, uploaded, deleted, overlapped, clock,
                   reacting>>

\* list_photos: the find().sort("photo_id").skip().limit().to_list() and
\* the response; the items are the photo ids.
ListPhotos_Find(g) ==
    /\ gtasks[g].pc = "list_photos_find"
    /\ LET sorted == SortDocs(PhotosOf(photos, gtasks[g].display_name), "photo_id")
           page == Page(sorted, gtasks[g].offset, gtasks[g].limit)
       IN  gtasks' = [gtasks EXCEPT ![g] =
               Listed(@, [i \in 1..Len(page.items) |-> page.items[i].photo_id],
                      page.has_more, gtasks[g].total_count)]
    /\ UNCHANGED <<photos, photographers, counters, uploaded, deleted, overlapped, clock,
                   nreq, reacting>>

\* get_photographers: Photographer.count()
GetPhotographers_Count(g) ==
    /\ gtasks[g].pc = "idle"
    /\ nreq < quota
    /\ nreq' = nreq + 1
    /\ \E offset \in 0..MaxOffset, limit \in 1..MaxLimit :
          gtasks' = [gtasks EXCEPT ![g] =
              [IdleGTask EXCEPT !.op = "get_photographers", !.pc = "get_photographers_find",
                                !.offset = offset, !.limit = limit,
                                !.counted = photographers,
                                !.total_count = Cardinality(photographers)]]
    /\ UNCHANGED <<photos, photographers, counters, uploaded, deleted, overlapped, clock,
                   reacting>>

\* get_photographers: the find().sort("_id").skip().limit().to_list() and
\* the response; the items are the display names.
GetPhotographers_Find(g) ==
    /\ gtasks[g].pc = "get_photographers_find"
    /\ LET page == Page(SortDocs(photographers, "id"), gtasks[g].offset, gtasks[g].limit)
       IN  gtasks' = [gtasks EXCEPT ![g] =
               Listed(@, [i \in 1..Len(page.items) |-> page.items[i].display_name],
                      page.has_more, gtasks[g].total_count)]
    /\ UNCHANGED <<photos, photographers, counters, uploaded, deleted, overlapped, clock,
                   nreq, reacting>>

\* ------------------------------------------------------------ behaviours
Next ==
    \/ \E t \in Tasks : AddReaction_Validate(t)
    \/ \E t \in Tasks : AddReaction_Find(t)
    \/ \E t \in Tasks : AddReaction_Save(t)
    \/ \E t \in Tasks : IncrementReaction_Unavailable(t)
    \/ \E t \in Tasks : RecalculateStats_Read(t)
    \/ \E t \in Tasks : RecalculateStats_Write(t)
    \/ \E t \in Tasks : RecalculateStats_Fail(t)
    \/ \E t \in Tasks : UpdateReaction_Validate(t)
    \/ \E t \in Tasks : UpdateReaction_Find(t)
    \/ \E t \in Tasks : UpdateReaction_Save(t)
    \/ \E t \in Tasks : DeleteReaction_CheckPhoto(t)
    \/ \E t \in Tasks : DeleteReaction_Find(t)
    \/ \E t \in Tasks : DeleteReaction_Delete(t)
    \/ Sync_Read
    \/ Sync_Upsert
    \/ Sync_List
    \/ Sync_Prune
    \/ Sync_Done
    \/ Sync_Fail
    \/ Restart

Spec == Init /\ [][Next]_vars

\* The steady state: the photo-of-day service has finished its resync of the
\* empty collections and serves; nothing fails and nothing restarts.
InitServing ==
    /\ photos = StoredPhotos({<<"john", 5>>})
    /\ GalleryAtRest
    /\ reactions = {}
    /\ photo_stats = NoStats
    /\ tasks = [t \in Tasks |-> IdleTask]
    /\ pod = Serving
    /\ clock = 0
    /\ nreq = 0
    /\ quota = MaxReqsServing
    /\ nrestart = 0
    /\ reply = NoReply
    /\ logVer = [k \in PhotoKeys |-> 0]
    /\ statsVer = [k \in PhotoKeys |-> 0]
    /\ syncHist = NoSync

NextServing ==
    \/ \E t \in Tasks : AddReaction_Validate(t)
    \/ \E t \in Tasks : AddReaction_Find(t)
    \/ \E t \in Tasks : AddReaction_Save(t)
    \/ \E t \in Tasks : RecalculateStats_Read(t)
    \/ \E t \in Tasks : RecalculateStats_Write(t)
    \/ \E t \in Tasks : UpdateReaction_Validate(t)
    \/ \E t \in Tasks : UpdateReaction_Find(t)
    \/ \E t \in Tasks : UpdateReaction_Save(t)
    \/ \E t \in Tasks : DeleteReaction_CheckPhoto(t)
    \/ \E t \in Tasks : DeleteReaction_Find(t)
    \/ \E t \in Tasks : DeleteReaction_Delete(t)

SpecServing == InitServing /\ [][NextServing]_vars

\* Start-up with two photos in the photo store: the resync pass has more
\* than one key to write or to prune.
InitResync ==
    /\ photos = StoredPhotos(PhotoKeys)
    /\ GalleryAtRest
    /\ reactions = {}
    /\ photo_stats = NoStats
    /\ tasks = [t \in Tasks |-> IdleTask]
    /\ pod = InitPod
    /\ clock = 0
    /\ nreq = 0
    /\ quota = MaxReqsResync
    /\ nrestart = 0
    /\ reply = NoReply
    /\ logVer = [k \in PhotoKeys |-> 0]
    /\ statsVer = [k \in PhotoKeys |-> 0]
    /\ syncHist = NoSync

SpecResync == InitResync /\ [][Next]_vars

\* The resync pass is a coroutine of serve(): the event loop resumes it
\* after each await, so a pass that can go on does go on.
FairSpec ==
    /\ Spec
    /\ WF_vars(Sync_Read) /\ WF_vars(Sync_Upsert) /\ WF_vars(Sync_List)
    /\ WF_vars(Sync_Prune) /\ WF_vars(Sync_Done)

\* The reaction in the log when the window query is first asked: alice's
\* "coeur" on john/5, added at time 0.
FirstReaction == NewReaction(IdleTask, 0)

\* The steady state with two photos, after the add of FirstReaction and its
\* recompute; reactions are being added and the window query is being asked.
InitQuery ==
    /\ photos = StoredPhotos(PhotoKeys)
    /\ GalleryAtRest
    /\ reactions = SaveDocument({}, FirstReaction)
    /\ photo_stats = RecalcResult(NoStats, Key(FirstReaction), {FirstReaction})
    /\ tasks = [t \in Tasks |-> IdleTask]
    /\ pod = Serving
    /\ clock = 1
    /\ nreq = 0
    /\ quota = MaxReqsQuery
    /\ nrestart = 0
    /\ reply = NoReply
    /\ logVer = [k \in PhotoKeys |-> IF k = Key(FirstReaction) THEN 1 ELSE 0]
    /\ statsVer = [k \in PhotoKeys |-> IF k = Key(FirstReaction) THEN 1 ELSE 0]
    /\ syncHist = NoSync

NextQuery ==
    \/ \E t \in Tasks : AddReaction_Validate(t)
    \/ \E t \in Tasks : AddReaction_Find(t)
    \/ \E t \in Tasks : AddReaction_Save(t)
    \/ \E t \in Tasks : RecalculateStats_Read(t)
    \/ \E t \in Tasks : RecalculateStats_Write(t)
    \/ GetPhotoOfDay

SpecQuery == InitQuery /\ [][NextQuery]_vars

\* A start of the photo-of-day service when the log holds FirstReaction and
\* the store its record; every handler, both writers and both queries run.
InitFrame ==
    /\ photos = StoredPhotos({<<"john", 5>>})
    /\ GalleryAtRest
    /\ reactions = SaveDocument({}, FirstReaction)
    /\ photo_stats = RecalcResult(NoStats, Key(FirstReaction), {FirstReaction})
    /\ tasks = [t \in Tasks |-> IdleTask]
    /\ pod = InitPod
    /\ clock = 1
    /\ nreq = 0
    /\ quota = MaxReqsFrame
    /\ nrestart = 0
    /\ reply = NoReply
    /\ logVer = [k \in PhotoKeys |-> IF k = Key(FirstReaction) THEN 1 ELSE 0]
    /\ statsVer = [k \in PhotoKeys |-> IF k = Key(FirstReaction) THEN 1 ELSE 0]
    /\ syncHist = NoSync

NextFrame ==
    \/ Next
    \/ GetPhotoOfDay
    \/ GetPhotoStats

SpecFrame == InitFrame /\ [][NextFrame]_vars

\* The photographer service and the photo service from their empty
\* collections; the reaction side is at rest.
InitGallery ==
    /\ photos = {}
    /\ photographers = {}
    /\ counters = {}
    /\ gtasks = [g \in GalleryTasks |-> IdleGTask]
    /\ uploaded = <<>>
    /\ deleted = {}
    /\ overlapped = FALSE
    /\ reactions = {}
    /\ photo_stats = NoStats
    /\ tasks = [t \in Tasks |-> IdleTask]
    /\ pod = Serving
    /\ clock = 0
    /\ nreq = 0
    /\ quota = MaxReqsGallery
    /\ nrestart = 0
    /\ reply = NoReply
    /\ logVer = [k \in PhotoKeys |-> 0]
    /\ statsVer = [k \in PhotoKeys |-> 0]
    /\ syncHist = NoSync

NextGallery ==
    \/ \E g \in GalleryTasks : CreatePhotographer_Find(g)
    \/ \E g \in GalleryTasks : CreatePhotographer_Insert(g)
    \/ \E g \in GalleryTasks : DeletePhotographer_Find(g)
    \/ \E g \in GalleryTasks : DeletePhotographer_Delete(g)
    \/ \E g \in GalleryTasks : UploadPhoto_Check(g)
    \/ \E g \in GalleryTasks : AllocatePhotoId_Find(g)
    \/ \E g \in GalleryTasks : AllocatePhotoId_Save(g)
    \/ \E g \in GalleryTasks : UploadPhoto_Save(g)
    \/ \E g \in GalleryTasks : DeletePhoto_Find(g)
    \/ \E g \in GalleryTasks : DeletePhoto_Delete(g)

SpecGallery == InitGallery /\ [][NextGallery]_vars

\* john's gallery after two uploads (photos 0 and 1); the listings run
\* while photos and photographers come and go.
InitListing ==
    /\ photos = {NewPhoto("john", 0, 0 - 2), NewPhoto("john", 1, 0 - 1)}
    /\ photographers = {NewPhotographer("john", 0 - 1)}
    /\ counters = {NewCounter("john", 2, 0 - 1)}
    /\ gtasks = [g \in GalleryTasks |-> IdleGTask]
    /\ uploaded = <<>>
    /\ deleted = {}
    /\ overlapped = FALSE
    /\ reactions = {}
    /\ photo_stats = NoStats
    /\ tasks = [t \in Tasks |-> IdleTask]
    /\ pod = Serving
    /\ clock = 0
    /\ nreq = 0
    /\ quota = MaxReqsListing
    /\ nrestart = 0
    /\ reply = NoReply
    /\ logVer = [k \in PhotoKeys |-> 0]
    /\ statsVer = [k \in PhotoKeys |-> 0]
    /\ syncHist = NoSync

NextListing ==
    \/ NextGallery
    \/ \E g \in GalleryTasks : ListPhotos_Count(g)
    \/ \E g \in GalleryTasks : ListPhotos_Find(g)
    \/ \E g \in GalleryTasks : GetPhotographers_Count(g)
    \/ \E g \in GalleryTasks : GetPhotographers_Find(g)

SpecListing == InitListing /\ [][NextListing]_vars

\* The steady state of InitQuery, with the photo service taking uploads,
\* deletions and photo-of-the-day requests while reactions are being added.
InitWinner ==
    /\ photos = StoredPhotos(PhotoKeys)
    /\ GalleryAtRest
    /\ reactions = SaveDocument({}, FirstReaction)
    /\ photo_stats = RecalcResult(NoStats, Key(FirstReaction), {FirstReaction})
    /\ tasks = [t \in Tasks |-> IdleTask]
    /\ pod = Serving
    /\ clock = 1
    /\ nreq = 0
    /\ quota = MaxReqsWinner
    /\ nrestart = 0
    /\ reply = NoReply
    /\ logVer = [k \in PhotoKeys |-> IF k = Key(FirstReaction) THEN 1 ELSE 0]
    /\ statsVer = [k \in PhotoKeys |-> IF k = Key(FirstReaction) THEN 1 ELSE 0]
    /\ syncHist = NoSync

NextWinner ==
    \/ \E t \in Tasks : AddReaction_Validate(t)
    \/ \E t \in Tasks : AddReaction_Find(t)
    \/ \E t \in Tasks : AddReaction_Save(t)
    \/ \E t \in Tasks : RecalculateStats_Read(t)
    \/ \E t \in Tasks : RecalculateStats_Write(t)
    \/ \E g \in GalleryTasks : UploadPhoto_Check(g)
    \/ \E g \in GalleryTasks : AllocatePhotoId_Find(g)
    \/ \E g \in GalleryTasks : AllocatePhotoId_Save(g)
    \/ \E g \in GalleryTasks : UploadPhoto_Save(g)
    \/ \E g \in GalleryTasks : DeletePhoto_Find(g)
    \/ \E g \in GalleryTasks : DeletePhoto_Delete(g)
    \/ \E g \in GalleryTasks : PhotoOfDay_Call(g)
    \/ \E g \in GalleryTasks : PhotoOfDay_Lookup(g)

SpecWinner == InitWinner /\ [][NextWinner]_vars

\* ================================================================ claims
AllIdle == \A t \in Tasks : tasks[t].pc = "idle"
OthersIdle(t) == \A u \in Tasks \ {t} : tasks[u].pc = "idle"
Quiescent == AllIdle /\ pod.pc = "serving"

\* Number of reactions of one kind in a list.
CountOf(list, kind) == Cardinality({r \in list : r.reaction = kind})

\* The count a breakdown gives a kind (an absent key counts 0).
BreakdownCount(b, kind) == IF kind \in DOMAIN b THEN b[kind] ELSE 0

\* stats holds for k exactly the aggregate of list: no record when the list
\* is empty; otherwise the per-kind counts, total = number of reactions,
\* first/last = the earliest/latest created_at.
IsAggregateOf(stats, k, list) ==
    IF list = {}
    THEN k \notin DOMAIN stats
    ELSE /\ k \in DOMAIN stats
         /\ stats[k].total_reactions = Cardinality(list)
         /\ DOMAIN stats[k].reaction_breakdown \subseteq allowed_reactions
         /\ \A kind \in allowed_reactions :
               BreakdownCount(stats[k].reaction_breakdown, kind) = CountOf(list, kind)
         /\ \E r \in list :
               /\ \A q \in list : r.created_at <= q.created_at
               /\ stats[k].first_reaction_date = IsoFormat(r.created_at)
         /\ \E r \in list :
               /\ \A q \in list : r.created_at >= q.created_at
               /\ stats[k].last_reaction_date = IsoFormat(r.created_at)

\* C1: whenever no request and no resync is in progress, a photo_stats
\* record exists for a photo if and only if the log holds a reaction for it.
C1_StatsExistIffReactions ==
    Quiescent =>
        \A k \in PhotoKeys : (k \in DOMAIN photo_stats) <=> (ReactionsOf(reactions, k) # {})

\* C2: every request that has written its change to the reactions log has
\* had recalculate_stats run for its photo by the time it has returned.
C2_LogWriteFollowedByRecompute ==
    \A t \in Tasks : (tasks[t].pc = "idle" /\ tasks[t].wrote) => tasks[t].recalc = "ok"

\* C3: when a recompute writes and the photo's reactions are still the ones
\* it read (no other mutation of the photo in between), the photo's stats are
\* the aggregate of the reactions now in the log.
C3_RecomputeYieldsAggregate ==
    [][\A t \in Tasks :
          (/\ tasks[t].pc = "recalc_write"
           /\ tasks'[t].pc = "idle" /\ tasks'[t].recalc = "ok"
           /\ tasks[t].read = ReactionsOf(reactions, Key(tasks[t])))
          => IsAggregateOf(photo_stats', Key(tasks[t]),
                           ReactionsOf(reactions', Key(tasks[t])))]_vars

\* C3 witness: a recompute has returned and left a record that aggregates
\* two reactions of two kinds.
C3_Witness ==
    \E t \in Tasks, k \in PhotoKeys :
        /\ tasks[t].pc = "idle" /\ tasks[t].recalc = "ok"
        /\ k \in DOMAIN photo_stats
        /\ photo_stats[k].total_reactions = 2
        /\ DOMAIN photo_stats[k].reaction_breakdown = allowed_reactions
        /\ IsAggregateOf(photo_stats, k, ReactionsOf(reactions, k))

\* C4: once two add_reaction requests by different reactors on one photo
\* have both returned 201 with their recompute done, the photo's stats
\* record has total_reactions = 2.
C4_TwoAddsCountTwo ==
    \A k \in PhotoKeys :
        (/\ nreq = 2 /\ AllIdle
         /\ \A t \in Tasks :
               tasks[t].op = "add" /\ tasks[t].status = 201 /\ tasks[t].recalc = "ok"
         /\ Cardinality(ReactionsOf(reactions, k)) = 2
         /\ Cardinality({r.reactor_name : r \in ReactionsOf(reactions, k)}) = 2)
        => (k \in DOMAIN photo_stats /\ photo_stats[k].total_reactions = 2)

\* C5: a recompute never replaces the stats of a photo by a result computed
\* from an older state of the photo's reactions than the one the stored
\* stats were computed from.
C5_RecomputeNeverWritesOlder ==
    [][\A t \in Tasks :
          (tasks[t].pc = "recalc_write" /\ tasks'[t].pc = "idle" /\ tasks'[t].recalc = "ok")
          => tasks[t].readVer >= statsVer[Key(tasks[t])]]_vars

\* C6: the log never holds two reactions with the same display_name,
\* photo_id and reactor_name.
C6_OneReactionPerReactor ==
    \A r, q \in reactions :
        (Key(r) = Key(q) /\ r.reactor_name = q.reactor_name) => r = q

\* C7: when delete_reaction has removed the last reaction of a photo and
\* returned, with no other request in progress, the photo has no stats record.
C7_LastDeleteRemovesStats ==
    [][\A t \in Tasks :
          (/\ tasks[t].pc = "delete" /\ tasks'[t].pc = "idle"
           /\ OthersIdle(t)
           /\ ReactionsOf(reactions, Key(tasks[t])) # {}
           /\ ReactionsOf(reactions', Key(tasks[t])) = {})
          => Key(tasks[t]) \notin DOMAIN photo_stats']_vars

\* C8: when update_reaction has changed a reaction's kind and returned, with
\* no other request in progress, the photo's breakdown counts the log as it
\* now is (the reaction under its new kind), and total and dates are as before.
C8_UpdateMovesBreakdown ==
    [][\A t \in Tasks :
          (/\ tasks[t].op = "update" /\ tasks[t].pc = "save" /\ tasks'[t].pc = "idle"
           /\ OthersIdle(t)
           /\ Key(tasks[t]) \in DOMAIN photo_stats
           /\ \E d \in tasks[t].doc, r \in reactions :
                 r.id = d.id /\ r.reaction # d.reaction)
          => LET k == Key(tasks[t])
                 list == ReactionsOf(reactions', k)
             IN  /\ k \in DOMAIN photo_stats'
                 /\ \A kind \in allowed_reactions :
                       BreakdownCount(photo_stats'[k].reaction_breakdown, kind)
                           = CountOf(list, kind)
                 /\ photo_stats'[k].total_reactions = photo_stats[k].total_reactions
                 /\ photo_stats'[k].first_reaction_date = photo_stats[k].first_reaction_date
                 /\ photo_stats'[k].last_reaction_date = photo_stats[k].last_reaction_date]_vars

\* C9: when delete_reaction has removed the only reaction of kind K of a
\* photo that keeps other reactions, and returned with no other request in
\* progress, the photo's breakdown has no key K and its total is the number
\* of reactions left.
C9_NoStaleBreakdownKey ==
    [][\A t \in Tasks :
          (/\ tasks[t].pc = "delete" /\ tasks'[t].pc = "idle"
           /\ OthersIdle(t)
           /\ \E d \in tasks[t].doc :
                 /\ d \in reactions
                 /\ ReactionsOf(reactions', Key(d)) # {}
                 /\ CountOf(ReactionsOf(reactions', Key(d)), d.reaction) = 0)
          => LET k == Key(tasks[t])
             IN  /\ k \in DOMAIN photo_stats'
                 /\ \A d \in tasks[t].doc :
                       d.reaction \notin DOMAIN photo_stats'[k].reaction_breakdown
                 /\ photo_stats'[k].total_reactions
                        = Cardinality(ReactionsOf(reactions', k))]_vars

\* C10: every photo_stats record has total_reactions equal to the sum of its
\* breakdown, total_reactions > 0 and every breakdown count > 0.
C10_StatsRecordsWellFormed ==
    \A k \in DOMAIN photo_stats :
        LET s == photo_stats[k]
        IN  /\ s.total_reactions = SumValues(s.reaction_breakdown)
            /\ s.total_reactions > 0
            /\ \A kind \in DOMAIN s.reaction_breakdown : s.reaction_breakdown[kind] > 0

\* C10 witness: the resync has just upserted a record of two reactions, after
\* an earlier recompute had written the photo's stats.
C10_Witness ==
    \E k \in PhotoKeys, t \in Tasks :
        /\ pod.pc = "sync_upsert"
        /\ k \in DOMAIN pod.photos_reactions /\ k \notin pod.pending
        /\ k \in DOMAIN photo_stats /\ photo_stats[k].total_reactions = 2
        /\ tasks[t].recalc = "ok"

\* A resync pass returns normally in this step.
SyncReturns == pod.pc = "sync_prune" /\ pod'.pc = "serving" /\ pod'.sync = "done"

\* C11: when a resync pass has run to its end and the log was not written
\* since the pass read it, the store holds for every photo exactly the
\* aggregate of its reactions, and no record for a photo without reactions.
C11_ResyncYieldsAggregates ==
    [][(SyncReturns /\ pod.readVer = logVer)
       => \A k \in PhotoKeys :
             IsAggregateOf(photo_stats', k, ReactionsOf(reactions', k))]_vars

\* C11 witness: a pass has returned, both photos have reactions and records,
\* and no request had a recompute: the pass wrote the two records.
C11_Witness ==
    /\ pod.pc = "serving" /\ pod.sync = "done" /\ syncHist.count > 0
    /\ \A t \in Tasks : tasks[t].pc = "idle" /\ tasks[t].recalc = "none"
    /\ \A k \in PhotoKeys :
          /\ k \in DOMAIN photo_stats
          /\ IsAggregateOf(photo_stats, k, ReactionsOf(reactions, k))

\* C12: when a resync pass returns and the log was not written since an
\* earlier pass that returned had read it, the store is the one the earlier
\* pass left.
C12_ResyncIdempotent ==
    [][(SyncReturns /\ syncHist.count > 0 /\ pod.readVer = logVer)
       => photo_stats' = syncHist.store]_vars

\* C12 witness: two passes have returned over the same non-empty log and the
\* store holds records.
C12_Witness ==
    /\ pod.pc = "serving" /\ pod.sync = "done"
    /\ syncHist.count = 2
    /\ reactions # {}
    /\ DOMAIN photo_stats # {}

\* C13: the photo-of-day service always gets to serve: whenever its resync
\* pass is running, with or without a storage error, the gRPC server is
\* started afterwards.
C13_StartupReachesServing == (pod.pc # "serving") ~> (pod.pc = "serving")

\* C13 witness: the pass has ended in an error and the server is serving.
C13_Witness == pod.pc = "serving" /\ pod.sync = "failed" /\ reactions # {}

\* C14: when the write of one photo's stats fails during a resync pass, by
\* the end of the pass every other photo with reactions has its stats
\* upserted and no orphaned record is left.
C14_ResyncSkipsFailedKey ==
    [][(/\ pod.pc = "sync_upsert" /\ pod.pending # {}
        /\ pod'.pc = "serving" /\ pod'.sync = "failed")
       => \E bad \in pod.pending :
             /\ \A k \in DOMAIN pod.photos_reactions \ {bad} :
                   /\ k \in DOMAIN photo_stats'
                   /\ photo_stats'[k] = StatsDoc(pod.photos_reactions[k])
             /\ Orphans(photo_stats', pod.photos_reactions) = {}]_vars

\* C15: no recompute is in progress while the resync pass is running.
C15_NoRecomputeDuringResync ==
    pod.pc # "serving" => \A t \in Tasks : tasks[t].pc # "recalc_write"

\* C15 witness: the pass is running after a restart, a request has written
\* the log and waits for IncrementReaction, and a recompute had run before.
C15_Witness ==
    /\ pod.pc \in {"sync_upsert", "sync_prune"} /\ nrestart > 0
    /\ \E t, u \in Tasks : tasks[t].pc = "notify" /\ tasks[u].recalc = "ok"

\* The key a GetPhotoOfDayResponse names.
ReplyKey(r) == <<r.display_name, r.photo_id>>

\* last_reaction_date in [start, end)
InHalfOpenWindow(doc, start, end) ==
    /\ StrLeq(FromTimestamp(start), doc.last_reaction_date)
    /\ ~StrLeq(FromTimestamp(end), doc.last_reaction_date)

\* GetPhotoOfDay answers a request with start < end in this step.
Answers ==
    /\ reply' # reply /\ reply'.rpc = "GetPhotoOfDay"
    /\ reply'.status = "OK" /\ reply'.start < reply'.end

\* C16: the record GetPhotoOfDay(start, end) returns has its last reaction
\* date in [start, end): in particular not equal to end.
C16_WindowHalfOpen ==
    [][(Answers /\ reply'.found)
       => InHalfOpenWindow(photo_stats[ReplyKey(reply')], reply'.start, reply'.end)]_vars

\* C17: GetPhotoOfDay(start, end) answers found=False exactly when no record
\* has its last reaction date in [start, end), and otherwise returns a
\* record of that window whose total is the greatest of the window.
C17_BestOfWindow ==
    [][Answers
       => LET inside == {k \in DOMAIN photo_stats :
                            InHalfOpenWindow(photo_stats[k], reply'.start, reply'.end)}
          IN  /\ reply'.found <=> inside # {}
              /\ reply'.found =>
                    /\ ReplyKey(reply') \in inside
                    /\ \A k \in inside :
                          photo_stats[k].total_reactions <= reply'.total_reactions]_vars

\* C18: an add_reaction that has answered 201 has had its recompute run to
\* completion.
C18_AddSuccessMeansRecomputed ==
    \A t \in Tasks :
        (tasks[t].pc = "idle" /\ tasks[t].op = "add" /\ tasks[t].status = 201)
        => tasks[t].recalc = "ok"

\* C19: IncrementReaction never answers success=True for a recompute whose
\* read or write failed.
C19_FailedRecomputeNotSuccess ==
    \A t \in Tasks :
        (tasks[t].recalc = "failed" /\ tasks[t].response.answered)
        => ~tasks[t].response.success

\* The stats of photo k are not the aggregate of its reactions.
Stale(k) == ~IsAggregateOf(photo_stats, k, ReactionsOf(reactions, k))

WriterReads(k) ==
    {tasks[t].read : t \in {u \in Tasks : tasks[u].pc = "recalc_write" /\ Key(tasks[u]) = k}}
    \cup (IF pod.pc = "sync_upsert" /\ k \in DOMAIN pod.photos_reactions
          THEN {pod.photos_reactions[k]} ELSE {})

\* C21: a stats record is never half-aggregated: every step that stores or
\* changes the record of a photo stores the total, breakdown, first date and
\* last date of one non-empty list that its writer read in one read of that
\* photo's reactions, also when the recompute or the resync fails later.
C21_RecordFromOneRead ==
    [][\A k \in PhotoKeys :
          (k \in DOMAIN photo_stats'
             /\ (k \notin DOMAIN photo_stats \/ photo_stats'[k] # photo_stats[k]))
          => \E list \in WriterReads(k) :
                /\ list # {}
                /\ \A r \in list : Key(r) = k
                /\ photo_stats'[k] = StatsDoc(list)]_vars

\* A first resync failed part-way: one photo has its record, another photo
\* with reactions has none.
C21_Witness ==
    /\ pod.pc = "serving" /\ pod.sync = "failed" /\ nrestart = 0
    /\ \E k \in DOMAIN photo_stats, k2 \in PhotoKeys \ DOMAIN photo_stats :
          /\ ReactionsOf(reactions, k2) # {}
          /\ IsAggregateOf(photo_stats, k, ReactionsOf(reactions, k))

\* C22: add_reaction for a (display_name, photo_id, reactor_name) that has a
\* reaction when the handler looks it up answers 409 and leaves the log as it
\* is: the handler returns without having written.
C22_DuplicateAddConflicts ==
    [][\A t \in Tasks :
          (/\ tasks[t].op = "add" /\ tasks[t].pc = "find" /\ tasks'[t] # tasks[t]
           /\ FindReaction(reactions, Key(tasks[t]), tasks[t].reactor_name) # {})
          => /\ tasks'[t].pc = "idle" /\ tasks'[t].status = 409
             /\ ~tasks'[t].wrote /\ tasks'[t].recalc = "none"
             /\ reactions' = reactions
             /\ photo_stats' = photo_stats]_vars

\* An add answered 409 while the log holds a reaction.
C22_Witness ==
    \E t \in Tasks :
        /\ tasks[t].pc = "idle" /\ tasks[t].op = "add" /\ tasks[t].status = 409
        /\ ~tasks[t].wrote
        /\ reactions # {}

\* C23: a reaction kind outside the allowed set is rejected with 400 before
\* anything else happens: no handler goes on with such a kind, no reaction in
\* the log has one, and a request answered 400 wrote nothing and triggered
\* no recompute.
C23_InvalidKindRejected ==
    /\ \A r \in reactions : r.reaction \in allowed_reactions
    /\ \A t \in Tasks :
          /\ tasks[t].pc # "idle" => tasks[t].reaction \in allowed_reactions
          /\ (tasks[t].pc = "idle" /\ tasks[t].status = 400)
             => /\ tasks[t].op \in {"add", "update"}
                /\ ~tasks[t].wrote
                /\ tasks[t].recalc = "none"
                /\ ~tasks[t].response.answered

\* An add and an update were both answered 400.
C23_Witness ==
    \E t, u \in Tasks :
        /\ tasks[t].pc = "idle" /\ tasks[t].op = "add" /\ tasks[t].status = 400
        /\ tasks[u].pc = "idle" /\ tasks[u].op = "update" /\ tasks[u].status = 400

\* C24: update_reaction on an existing reaction answers 200 with the new
\* kind, and the log then holds the reaction with the new kind.
C24_UpdateSucceeds ==
    [][\A t \in Tasks :
          (tasks[t].op = "update" /\ tasks[t].pc = "save" /\ tasks'[t].pc = "idle")
          => /\ tasks'[t].status = 200
             /\ \E doc \in tasks[t].doc :
                   /\ doc.reaction = tasks[t].reaction
                   /\ doc \in reactions']_vars

\* C25: delete_reaction on an existing reaction answers 204, and the photo's
\* reactions are then one fewer than before.
C25_DeleteSucceeds ==
    [][\A t \in Tasks :
          (/\ tasks[t].op = "delete" /\ tasks[t].pc = "delete" /\ tasks'[t].pc = "idle"
           /\ tasks[t].doc \subseteq reactions)
          => /\ tasks'[t].status = 204
             /\ \A doc \in tasks[t].doc :
                   /\ doc \notin reactions'
                   /\ Cardinality(ReactionsOf(reactions', Key(doc)))
                         = Cardinality(ReactionsOf(reactions, Key(doc))) - 1]_vars

\* C26: update_reaction for a (display_name, photo_id, reactor_name) that
\* has no reaction answers 404 and creates nothing: the log and the stats
\* store are unchanged and the handler returns without having written.
C26_UpdateMissingNotFound ==
    [][\A t \in Tasks :
          (/\ tasks[t].op = "update" /\ tasks[t].pc = "find" /\ tasks'[t] # tasks[t]
           /\ FindReaction(reactions, Key(tasks[t]), tasks[t].reactor_name) = {})
          => /\ tasks'[t].pc = "idle" /\ tasks'[t].status = 404
             /\ ~tasks'[t].wrote /\ tasks'[t].recalc = "none"
             /\ reactions' = reactions
             /\ photo_stats' = photo_stats]_vars

\* An update of a photo that exists was answered 404 (every photo exists in
\* InitResync, so the reaction was missing).
C26_Witness ==
    /\ {Key(p) : p \in photos} = PhotoKeys
    /\ \E t \in Tasks :
          /\ tasks[t].pc = "idle" /\ tasks[t].op = "update" /\ tasks[t].status = 404
          /\ ~tasks[t].wrote

\* C27: delete_reaction for a (display_name, photo_id, reactor_name) that
\* has no reaction changes neither the log nor the stats store, and the
\* handler returns without a write or a recompute, whatever it answers.
C27_DeleteMissingNoEffect ==
    [][\A t \in Tasks :
          (/\ tasks[t].op = "delete" /\ tasks[t].pc = "find" /\ tasks'[t] # tasks[t]
           /\ FindReaction(reactions, Key(tasks[t]), tasks[t].reactor_name) = {})
          => /\ tasks'[t].pc = "idle"
             /\ ~tasks'[t].wrote /\ tasks'[t].recalc = "none"
             /\ reactions' = reactions
             /\ photo_stats' = photo_stats]_vars

\* A delete of a missing reaction on a photo that exists has returned while
\* the stats store holds a record.
C27_Witness ==
    /\ {Key(p) : p \in photos} = PhotoKeys
    /\ DOMAIN photo_stats # {}
    /\ \E t \in Tasks :
          /\ tasks[t].pc = "idle" /\ tasks[t].op = "delete" /\ tasks[t].status = 404
          /\ ~tasks[t].wrote

\* C28: the photo-existence check precedes every mutation: every reaction in
\* the log and every handler past the check is for a photo that exists, and
\* a request answered 503, or an add answered 404, wrote nothing and
\* triggered no recompute.
C28_PhotoCheckPrecedesMutation ==
    /\ \A r \in reactions : FindPhoto(photos, Key(r)) # {}
    /\ \A t \in Tasks :
          /\ tasks[t].pc # "idle" => FindPhoto(photos, Key(tasks[t])) # {}
          /\ (tasks[t].pc = "idle"
                /\ (tasks[t].status = 503 \/ (tasks[t].status = 404 /\ tasks[t].op = "add")))
             => /\ ~tasks[t].wrote
                /\ tasks[t].recalc = "none"
                /\ ~tasks[t].response.answered

\* One request was answered 503 and an add for a photo that does not exist
\* was answered 404.
C28_Witness ==
    \E t, u \in Tasks :
        /\ tasks[t].pc = "idle" /\ tasks[t].status = 503
        /\ tasks[u].pc = "idle" /\ tasks[u].op = "add" /\ tasks[u].status = 404

\* C29: the write of a recompute for one photo leaves the stats record of
\* every other (display_name, photo_id) as it was, present or absent.
C29_RecomputeLeavesOtherKeys ==
    [][\A t \in Tasks :
          (tasks[t].pc = "recalc_write" /\ tasks'[t].pc = "idle")
          => \A k \in PhotoKeys \ {Key(tasks[t])} :
                /\ k \in DOMAIN photo_stats' <=> k \in DOMAIN photo_stats
                /\ k \in DOMAIN photo_stats => photo_stats'[k] = photo_stats[k]]_vars

\* Two photos have their records and the last request's recompute has written.
C29_Witness ==
    /\ DOMAIN photo_stats = PhotoKeys
    /\ \E t \in Tasks : tasks[t].pc = "idle" /\ tasks[t].recalc = "ok"
    /\ \A k \in PhotoKeys : IsAggregateOf(photo_stats, k, ReactionsOf(reactions, k))

\* C30: the log changes only in the save or delete step of a reaction-service
\* handler, never in a step of recalculate_stats or of the resync; the stats
\* store changes only in the write of recalculate_stats or in a step of the
\* resync; GetPhotoOfDay and GetPhotoStats change neither.
C30_WritersOfLogAndStats ==
    [][/\ reactions' # reactions
          => /\ \E t \in Tasks : tasks[t].pc \in {"save", "delete"} /\ tasks'[t] # tasks[t]
             /\ pod' = pod
       /\ photo_stats' # photo_stats
          => \/ \E t \in Tasks : tasks[t].pc = "recalc_write" /\ tasks'[t].pc = "idle"
             \/ pod.pc \in {"sync_upsert", "sync_prune"} /\ pod' # pod /\ tasks' = tasks
       /\ reply' # reply
          => photo_stats' = photo_stats /\ reactions' = reactions]_vars

\* GetPhotoStats answered with the record that a recompute wrote after a
\* second reaction was added.
C30_Witness ==
    /\ reply.rpc = "GetPhotoStats" /\ reply.status = "OK" /\ reply.found
    /\ reply.total_reactions = 2
    /\ \E t \in Tasks : tasks[t].pc = "idle" /\ tasks[t].recalc = "ok"

\* C31: the save of update_reaction changes only the kind and updated_at of
\* the targeted reaction: the log holds the same number of reactions, the
\* target keeps its display_name, photo_id, reactor_name and created_at, and
\* every other reaction is unchanged.
C31_UpdateChangesOnlyKind ==
    [][\A t \in Tasks :
          (tasks[t].op = "update" /\ tasks[t].pc = "save" /\ tasks'[t].pc = "idle")
          => \E doc \in tasks[t].doc, old \in reactions :
                /\ old.id = doc.id
                /\ Key(old) = Key(doc) /\ old.reactor_name = doc.reactor_name
                /\ old.created_at = doc.created_at
                /\ reactions' = (reactions \ {old}) \cup {doc}
                /\ Cardinality(reactions') = Cardinality(reactions)]_vars

\* C39: a mutation of the log made while the resync pass was running (after
\* its read) is in the stats once the pass has returned and every request
\* has completed.
C39_MutationDuringResyncReflected ==
    [][(SyncReturns /\ AllIdle /\ pod.readVer # logVer)
       => \A k \in PhotoKeys :
             IsAggregateOf(photo_stats', k, ReactionsOf(reactions', k))]_vars

\* C40: every record has first_reaction_date <= last_reaction_date, and
\* every step that stores or changes a record stores as its two dates the
\* created_at of reactions in the list its writer read for that photo.
C40_DatesFromReadReactions ==
    /\ [](\A k \in DOMAIN photo_stats :
             StrLeq(photo_stats[k].first_reaction_date, photo_stats[k].last_reaction_date))
    /\ [][\A k \in PhotoKeys :
             (k \in DOMAIN photo_stats'
                /\ (k \notin DOMAIN photo_stats \/ photo_stats'[k] # photo_stats[k]))
             => \E list \in WriterReads(k) : \E first, last \in list :
                   /\ Key(first) = k /\ Key(last) = k
                   /\ first.created_at <= last.created_at
                   /\ photo_stats'[k].first_reaction_date = IsoFormat(first.created_at)
                   /\ photo_stats'[k].last_reaction_date = IsoFormat(last.created_at)]_vars

\* A record holds two different dates: those of the two reactions of its photo.
C40_Witness ==
    \E k \in DOMAIN photo_stats :
        /\ photo_stats[k].first_reaction_date # photo_stats[k].last_reaction_date
        /\ \E r, q \in ReactionsOf(reactions, k) :
              /\ photo_stats[k].first_reaction_date = IsoFormat(r.created_at)
              /\ photo_stats[k].last_reaction_date = IsoFormat(q.created_at)

C33_DisplayNameUnique ==
    \A d \in DisplayNames : Cardinality(FindPhotographer(photographers, d)) <= 1

\* C34: a delete that finds the photographer or the photo answers 204 and
\* removes it: a later read, and a later delete, of that resource answer
\* 404; a delete that finds nothing answers 404 and changes nothing.
C34_DeleteThenNotFound ==
    [][\A g \in GalleryTasks :
          /\ (gtasks[g].pc = "delete_photographer" /\ gtasks'[g].pc = "idle")
             => /\ gtasks'[g].status = 204
                /\ GetPhotographer(photographers', gtasks[g].display_name) = 404
          /\ (gtasks[g].pc = "delete_photo" /\ gtasks'[g].pc = "idle")
             => /\ gtasks'[g].status = 204
                /\ GetPhotoImage(photos', <<gtasks[g].display_name, gtasks[g].photo_id>>) = 404
          /\ (/\ gtasks[g].pc = "idle" /\ gtasks'[g].pc = "idle" /\ gtasks'[g] # gtasks[g]
              /\ gtasks'[g].op \in {"delete_photographer", "delete_photo"})
             => /\ gtasks'[g].status = 404
                /\ photographers' = photographers /\ photos' = photos]_vars

\* The items a listing of n documents answers for offset and limit.
PageSize(n, offset, limit) == Min({limit, Max({0, n - offset})})

C36_PhotoIdsDistinct ==
    \A i, j \in 1..Len(uploaded) : i # j => uploaded[i] # uploaded[j]

\* C37: an upload never gets the photo_id of a photo that was deleted, and
\* no counter document ever decreases.
C37_DeletedIdNeverReused ==
    [][/\ \A g \in GalleryTasks :
             (gtasks[g].pc = "photo_save" /\ gtasks'[g].pc = "idle")
             => <<gtasks[g].display_name, gtasks[g].photo_id>> \notin deleted
       /\ \A c \in counters, c2 \in counters' :
             c.id = c2.id => c2.next_photo_id >= c.next_photo_id]_vars

\* C38: the photo GetPhotoOfDay names exists in the photo store, and
\* get_photo_of_day never answers 500 for a photo that is in the stats but
\* not in the store.
C38_WinnerExists ==
    [][/\ (reply' # reply /\ reply'.rpc = "GetPhotoOfDay" /\ reply'.found)
          => FindPhoto(photos', ReplyKey(reply')) # {}
       /\ \A g \in GalleryTasks :
             (gtasks[g].pc = "photo_lookup" /\ gtasks'[g].pc = "idle")
             => gtasks'[g].status # 500]_vars

=========================================================================
